---- MODULE Spec2Model ----
(***************************************************************************)
(* A model of @indb/stores: the ordered Collection with its two binary     *)
(* searches, and the Slice, the Counter and the Entity that follow an      *)
(* object store through the Database's `changed` events.                   *)
(*                                                                         *)
(* Records are the `User` objects of the test fixtures: {id, firstName,    *)
(* lastName}.  Array positions are 0-based as in the source; a TLA+        *)
(* sequence holds position i at index i + 1.                               *)
(***************************************************************************)
EXTENDS Integers, Sequences, FiniteSets, TLC

\* ----------------------------------------------------------------- bounds
MaxKey == 3
MaxStoreKey == 2
MaxQueue == 1
MaxBatchKey == 1
MaxPending == 2
MaxUpdates == 2

Keys == 1..MaxKey
StoreKeys == 1..MaxStoreKey

\* the names of the fixtures' users, and their rank in localeCompare order
Names == {"A", "B"}
Rank(name) == IF name = "A" THEN 1 ELSE 2

\* type User = { id; firstName; lastName }
Users == [id : Keys, firstName : Names, lastName : Names]

VARIABLES
  ids,        \* Collection.ids: Array<Key>
  index,      \* Collection.index: Map<Key, ObjectType>, a function on the tracked keys
  dataCache,  \* Collection.dataCache: null (ref = 0) or the cached CollectionData object
  held,       \* the object the last toData()/getSnapshot() call returned: "none" yet, the "cache", or an "old" object the collection dropped
  snapshot,   \* the objects toData() has returned: shared = the ids array of the last one is the array Collection.ids refers to, modified = a call since has changed the ids or the index of one of them
  added,      \* history: only = the collection was constructed empty and only add() of new keys has run; objects = those records, in call order
  lastOp,     \* the last call: its name, its return value, the error it threw, the changed events it dispatched, the event a dispatch delivered
  store,      \* the 'users' object store of the database: a function on the stored keys
  queue,      \* StoreChanges events of committed transactions not yet dispatched to the listeners
  sliceIndex, \* Slice.index is set: { path: 'lastName', value: 'A' }
  sliceFilter,\* Slice.filter is set: (user) => /^B/.test(user.firstName)
  setupPromise,               \* DatabaseChangeConnector.setupPromise: "null", "pending", "resolved", "rejected"
  deregisterDatabaseListener, \* "null", or the last listener's deregister function: "registered", "removed"
  dbListeners,                \* the number of the connector's listeners on the Database's EventTarget
  inits,                      \* the initializer runs still pending: the present setupPromise's (current), and those of setups torn down since (stale); raced = the present setup was called while a stale run was pending; early = the last 'users' event the listener of the present setup has run on came while its initializer was pending
  counter,    \* a Counter on 'users' with the Slice's index and filter: its count, its connector, its updateCount runs in flight
  entity,     \* an Entity on 'users': its key, its snapshot, its connector, its initializeEntity run in flight
  args,       \* the arguments of the one call a specification of a single function makes, <<>> elsewhere
  eventTarget \* DatabaseChangeConnector.eventTarget as subscribe and dispatchChanged use it: its 'changed' handlers (the subscribe calls by number), how often the callback of each subscribe call ran, and the calls whose unregister function was called

collectionVars == <<ids, index, dataCache, held, snapshot, added>>
sliceVars == <<store, queue, sliceIndex, sliceFilter, args, eventTarget, setupPromise,
               deregisterDatabaseListener, dbListeners, inits, counter, entity>>
vars == <<collectionVars, lastOp, sliceVars>>

\* ------------------------------------------------------------ JS helpers
EmptyIndex == <<>>

\* dataCache === null
NullCache == [ref |-> 0, ids |-> <<>>, index |-> EmptyIndex, shared |-> FALSE]

\* The one element of a singleton set: names a value computed once.
The(S) == CHOOSE x \in S : TRUE

Range(seq) == {seq[i] : i \in 1..Len(seq)}

\* Array.prototype.indexOf: the first 0-based position of key, or -1
IndexOf(items, key) ==
  IF key \in Range(items)
  THEN (CHOOSE i \in 1..Len(items) :
          items[i] = key /\ \A j \in 1..(i - 1) : items[j] # key) - 1
  ELSE -1

\* Array.prototype.splice(start, 1): a negative start counts from the end
SpliceOut(items, start) ==
  LET at == IF start < 0 THEN (IF Len(items) + start < 0 THEN 0 ELSE Len(items) + start)
            ELSE start
  IN IF at >= Len(items) THEN items
     ELSE SubSeq(items, 1, at) \o SubSeq(items, at + 2, Len(items))

\* Array.prototype.splice(start, 0, key)
SpliceIn(items, start, key) ==
  LET at == IF start > Len(items) THEN Len(items) ELSE start
  IN SubSeq(items, 1, at) \o <<key>> \o SubSeq(items, at + 1, Len(items))

\* String.prototype.localeCompare on names
localeCompare(a, b) ==
  IF Rank(a) < Rank(b) THEN -1 ELSE IF Rank(a) > Rank(b) THEN 1 ELSE 0

\* the Comparer of the fixtures: by lastName, then by firstName
compareUsers(left, right) ==
  LET last == localeCompare(left.lastName, right.lastName)
  IN IF last = 0 THEN localeCompare(left.firstName, right.firstName) ELSE last

\* the KeyExtractor of the fixtures
getUserKey(user) == user.id

\* --------------------------------------------------- collection/utils.ts
\* A search result: err = "none" and val (found = FALSE models `undefined`),
\* or the error thrown; iterations = the passes of the loop that got past its
\* bail-out check.
Ok(v) == [err |-> "none", found |-> TRUE, val |-> v, iterations |-> 0]
NotFound == [err |-> "none", found |-> FALSE, val |-> 0, iterations |-> 0]
Thrown(e) == [err |-> e, found |-> FALSE, val |-> 0, iterations |-> 0]
After(result, n) == [result EXCEPT !.iterations = n]

\* Collection.compareByKey resolves both keys in the index (`index.get(k)!`) and
\* compares the records; the comparer dereferences its arguments, so a key the
\* index does not hold makes it throw a TypeError.
Resolves(idx, k) == k \in DOMAIN idx
compareByKey(idx, leftKey, rightKey) == compareUsers(idx[leftKey], idx[rightKey])

\* A loop that takes the candidate index as soon as the item does not sort
\* after the element there, without looking at the element before it.
\* C28_InsertIndex tells it from InsertLoop.
RECURSIVE InsertLoopNoPrev(_, _, _, _, _, _)
InsertLoopNoPrev(idx, items, item, lbound, ubound, iterations) ==
  LET n == iterations + 1
      candidateIndex == (lbound + ubound) \div 2
      candidateComp == compareByKey(idx, item, items[candidateIndex + 1])
  IN
  IF n > Len(items) THEN After(Thrown("Unable to find insert index"), iterations)
  ELSE IF candidateIndex = 0
  THEN (IF candidateComp <= 0 THEN After(Ok(0), n) ELSE After(Ok(1), n))
  ELSE IF candidateComp <= 0 THEN After(Ok(candidateIndex), n)
  ELSE IF ubound - lbound <= 1 THEN After(Ok(Len(items)), n)
  ELSE InsertLoopNoPrev(idx, items, item, candidateIndex, ubound, n)

RECURSIVE InsertLoop(_, _, _, _, _, _)
InsertLoop(idx, items, item, lbound, ubound, iterations) ==
  LET n == iterations + 1
      candidateIndex == (lbound + ubound) \div 2
  IN
  IF n > Len(items) THEN After(Thrown("Unable to find insert index"), iterations)
  ELSE IF ~(Resolves(idx, item) /\ Resolves(idx, items[candidateIndex + 1]))
  THEN After(Thrown("TypeError"), n)
  ELSE
    LET candidateComp == compareByKey(idx, item, items[candidateIndex + 1]) IN
    IF candidateIndex = 0
    THEN (IF candidateComp <= 0 THEN After(Ok(0), n) ELSE After(Ok(1), n))
    ELSE IF ~Resolves(idx, items[candidateIndex])
    THEN After(Thrown("TypeError"), n)
    ELSE
      LET prevComp == compareByKey(idx, items[candidateIndex], item) IN
      IF prevComp <= 0 /\ candidateComp <= 0 THEN After(Ok(candidateIndex), n)
      ELSE IF ubound - lbound <= 1
      THEN (IF lbound = 0 THEN After(Ok(0), n)
            ELSE IF ubound = Len(items) THEN After(Ok(Len(items)), n)
            ELSE After(Thrown("Unable to find insert index"), n))
      ELSE IF candidateComp < 0
      THEN InsertLoop(idx, items, item, lbound, candidateIndex, n)
      ELSE InsertLoop(idx, items, item, candidateIndex, ubound, n)

\* An insert index that ignores the order: always the end of the array.
\* C8_AddsMatchReset tells it from getInsertIndex.
appendIndex(idx, items, item) == Ok(Len(items))

\* getInsertIndex(compare, items, item) with compare = compareByKey over idx
getInsertIndex(idx, items, item) ==
  IF Len(items) = 0 THEN Ok(0) ELSE InsertLoop(idx, items, item, 0, Len(items), 0)

\* A loop that bails out one pass later.  C29_Terminates tells it from
\* FindLoop.
RECURSIVE FindLoopLate(_, _, _, _, _, _)
FindLoopLate(idx, items, item, lbound, ubound, iterations) ==
  LET candidateIndex == (lbound + ubound) \div 2
      comp == compareByKey(idx, item, items[candidateIndex + 1])
  IN
  IF iterations > Len(items) + 1 THEN After(Thrown("Unable to find item"), iterations)
  ELSE IF comp = 0 THEN After(Ok(candidateIndex), iterations + 1)
  ELSE IF ubound - lbound <= 0 THEN After(NotFound, iterations + 1)
  ELSE IF comp < 0
  THEN FindLoopLate(idx, items, item, lbound, candidateIndex, iterations + 1)
  ELSE FindLoopLate(idx, items, item, candidateIndex, ubound, iterations + 1)

RECURSIVE FindLoop(_, _, _, _, _, _)
FindLoop(idx, items, item, lbound, ubound, iterations) ==
  LET candidateIndex == (lbound + ubound) \div 2 IN
  IF iterations > Len(items) THEN After(Thrown("Unable to find item"), iterations)
  ELSE IF ~(Resolves(idx, item) /\ Resolves(idx, items[candidateIndex + 1]))
  THEN After(Thrown("TypeError"), iterations + 1)
  ELSE
    LET comp == compareByKey(idx, item, items[candidateIndex + 1]) IN
    IF comp = 0 THEN After(Ok(candidateIndex), iterations + 1)
    ELSE IF ubound - lbound <= 0 THEN After(NotFound, iterations + 1)
    ELSE IF comp < 0
    THEN FindLoop(idx, items, item, lbound, candidateIndex, iterations + 1)
    ELSE FindLoop(idx, items, item, candidateIndex, ubound, iterations + 1)

\* findIndex(compare, items, item) with compare = compareByKey over idx
findIndex(idx, items, item) ==
  IF Len(items) = 0 THEN NotFound ELSE FindLoop(idx, items, item, 0, Len(items), 0)

\* --------------------------------------------------- collection/index.ts
\* The Collection object: its three mutable fields.
Coll == [ids |-> ids, index |-> index, dataCache |-> dataCache]

\* The outcome of a method call: the fields afterwards, the value returned and
\* the error thrown ("none" when the call returned normally).
Outcome(i, x, c, r, e) == [ids |-> i, index |-> x, dataCache |-> c, ret |-> r, err |-> e]

\* Array.prototype.sort is stable: an element goes after the elements that
\* compare less than or equal to it.
InsertStable(sorted, obj) ==
  LET before == Cardinality({i \in 1..Len(sorted) : compareUsers(sorted[i], obj) <= 0})
  IN SubSeq(sorted, 1, before) \o <<obj>> \o SubSeq(sorted, before + 1, Len(sorted))

RECURSIVE sortPairs(_)
sortPairs(objects) ==
  IF objects = <<>> THEN <<>>
  ELSE InsertStable(sortPairs(SubSeq(objects, 1, Len(objects) - 1)), objects[Len(objects)])

\* Collection.reset(objects)
reset(c, objects) ==
  The({Outcome([i \in 1..Len(pairs) |-> getUserKey(pairs[i])],
               [k \in {getUserKey(pairs[i]) : i \in 1..Len(pairs)} |->
                  pairs[CHOOSE i \in 1..Len(pairs) :
                          getUserKey(pairs[i]) = k
                          /\ \A j \in (i + 1)..Len(pairs) : getUserKey(pairs[j]) # k]],
               NullCache, FALSE, "none") :
       pairs \in {sortPairs(objects)}})

\* Collection.has(key)
has(c, key) == key \in DOMAIN c.index

\* Map.prototype.set
MapSet(idx, key, obj) == [k \in DOMAIN idx \cup {key} |-> IF k = key THEN obj ELSE idx[k]]

\* Map.prototype.delete
MapDelete(idx, key) == [k \in DOMAIN idx \ {key} |-> idx[k]]

\* Collection.add(obj): index.set comes first, so a throwing search leaves the
\* index changed, the ids as they were after the splice, and the cache uncleared.
add(c, obj) ==
  LET key == getUserKey(obj)
      existing == has(c, key)
      newIndex == MapSet(c.index, key, obj)
      rest == IF existing THEN SpliceOut(c.ids, IndexOf(c.ids, key)) ELSE c.ids
      insertIndex == getInsertIndex(newIndex, rest, key)
  IN IF insertIndex.err # "none"
     THEN Outcome(rest, newIndex, c.dataCache, FALSE, insertIndex.err)
     ELSE Outcome(SpliceIn(rest, insertIndex.val, key), newIndex, NullCache, FALSE, "none")

\* A remove that clears the cache whether or not the key is tracked.
\* C7_RemoveAbsent tells it from remove.
removeInvalidating(c, key) ==
  IF ~has(c, key) THEN Outcome(c.ids, c.index, NullCache, FALSE, "none")
  ELSE Outcome(SelectSeq(c.ids, LAMBDA x : x # key), MapDelete(c.index, key),
               NullCache, TRUE, "none")

\* Collection.remove(key)
remove(c, key) ==
  IF ~has(c, key) THEN Outcome(c.ids, c.index, c.dataCache, FALSE, "none")
  ELSE
    LET objIndex == findIndex(c.index, c.ids, key) IN
    IF objIndex.err # "none"
    THEN Outcome(c.ids, c.index, c.dataCache, FALSE, objIndex.err)
    ELSE IF ~objIndex.found
    THEN Outcome(c.ids, c.index, c.dataCache, FALSE, "Unable to find index for key")
    ELSE Outcome(SpliceOut(c.ids, objIndex.val), MapDelete(c.index, key), NullCache, TRUE, "none")

\* A toData that hands out the Collection's own ids array instead of a copy.
\* C38_SnapshotFrozen tells it from toData.
toDataShared(c) ==
  IF c.dataCache.ref = 0
  THEN [ref |-> 1, ids |-> c.ids, index |-> c.index, shared |-> TRUE]
  ELSE c.dataCache

\* Collection.toData(): the cached object, materialized on first use with a
\* copy of the ids array and an object built from the index's entries
toData(c) ==
  IF c.dataCache.ref = 0
  THEN [ref |-> 1, ids |-> c.ids, index |-> c.index, shared |-> FALSE]
  ELSE c.dataCache

\* ------------------------------------------- the Collection used directly
\* The arrays a caller can pass to the constructor and to reset: users with
\* distinct keys, in any order.
UserLists ==
  {objects \in UNION {[1..n -> Users] : n \in 0..MaxKey} :
     \A i, j \in 1..Len(objects) : i # j => getUserKey(objects[i]) # getUserKey(objects[j])}

\* The arrays the reset action is called with once the collection exists: none
\* or one user (the constructor covers every array of UserLists, the Slice
\* every result of a fetch).
ResetLists == {objects \in UserLists : Len(objects) <= 1}

NoAdds == [only |-> FALSE, objects |-> <<>>]

Returned(name, o) ==
  [op |-> name, ret |-> o.ret, err |-> o.err, dispatched |-> 0, detail |-> <<>>]

\* new Counter({database, storeName: 'users', index?, filter?}): count is
\* undefined (<<>>), nothing is set up.  dispatched = the changed events of its
\* last step.
NewCounter ==
  [count |-> <<>>, setupPromise |-> "null", listening |-> FALSE,
   init |-> FALSE, updates |-> 0, dispatched |-> 0, overlap |-> FALSE]

\* new Entity({database, storeName: 'users', key}): entity undefined is <<>>.
\* assigned = its last step assigned a new snapshot object, dispatched = the
\* changed events of its last step, err = the error its handler threw.
NewEntity(key) ==
  [key |-> key, snapshot |-> [status |-> "LOADING", entity |-> <<>>],
   setupPromise |-> "null", listening |-> FALSE, init |-> FALSE, stale |-> 0,
   assigned |-> FALSE, dispatched |-> 0, err |-> "none", early |-> FALSE]

\* new EventTarget(): no handler is registered, no callback has run.
NewEventTarget == [handlers |-> <<>>, called |-> <<>>, unsubscribed |-> {}]

\* The Slice's side is not there when the Collection is used directly.
NoSlice ==
  /\ store = EmptyIndex
  /\ queue = <<>>
  /\ sliceIndex = FALSE
  /\ sliceFilter = FALSE
  /\ setupPromise = "null"
  /\ deregisterDatabaseListener = "null"
  /\ dbListeners = 0
  /\ inits = [current |-> FALSE, stale |-> 0, raced |-> FALSE, early |-> FALSE]
  /\ counter = NewCounter
  /\ entity = NewEntity(1)
  /\ args = <<>>
  /\ eventTarget = NewEventTarget

\* No toData() call yet
NoSnapshot == [shared |-> FALSE, modified |-> FALSE]

\* The fields after a call that splices this.ids in place (add, remove); once
\* clearCache has run, the object the consumer holds is no longer the
\* collection's.  An array the snapshot shared with the Collection shows the
\* splice.
Apply(o) ==
  /\ ids' = o.ids
  /\ index' = o.index
  /\ dataCache' = o.dataCache
  /\ held' = IF held = "cache" /\ o.dataCache.ref = 0 THEN "old" ELSE held
  /\ snapshot' = [snapshot EXCEPT !.modified = @ \/ (snapshot.shared /\ o.ids # ids)]

\* The fields after reset: this.ids and this.index are assigned new objects,
\* the ones before are left as they are.
Assign(o) ==
  /\ ids' = o.ids
  /\ index' = o.index
  /\ dataCache' = o.dataCache
  /\ held' = IF held = "cache" /\ o.dataCache.ref = 0 THEN "old" ELSE held
  /\ snapshot' = [snapshot EXCEPT !.shared = FALSE]

\* new Collection(getKey, compare, objects)
CollectionInit ==
  \E objects \in UserLists :
    \E o \in {reset([ids |-> <<>>, index |-> EmptyIndex, dataCache |-> NullCache], objects)} :
    /\ ids = o.ids
    /\ index = o.index
    /\ dataCache = o.dataCache
    /\ held = "none"
    /\ snapshot = NoSnapshot
    /\ added = [only |-> objects = <<>>, objects |-> <<>>]
    /\ lastOp = Returned("new", o)
    /\ NoSlice

CollectionReset(objects) ==
  \E o \in {reset(Coll, objects)} :
  /\ Assign(o)
  /\ added' = [only |-> objects = <<>>, objects |-> <<>>]
  /\ lastOp' = Returned("reset", o)

CollectionAdd(obj) ==
  \E o \in {add(Coll, obj)} :
  /\ Apply(o)
  /\ added' = IF added.only /\ ~has(Coll, getUserKey(obj)) /\ o.err = "none"
              THEN [only |-> TRUE, objects |-> Append(added.objects, obj)]
              ELSE NoAdds
  /\ lastOp' = Returned("add", o)

CollectionRemove(key) ==
  \E o \in {remove(Coll, key)} :
  /\ Apply(o)
  /\ added' = IF has(Coll, key) THEN NoAdds ELSE added
  /\ lastOp' = Returned("remove", o)

CollectionToData ==
  \E data \in {toData(Coll)} :
  /\ dataCache' = data
  /\ held' = "cache"
  /\ snapshot' = [snapshot EXCEPT !.shared = data.shared]
  /\ lastOp' = [op |-> "toData", ret |-> (data = dataCache /\ held = "cache"),
                err |-> "none", dispatched |-> 0, detail |-> <<>>]
  /\ UNCHANGED <<ids, index, added>>

CollectionNext ==
  \/ \E objects \in ResetLists : CollectionReset(objects) /\ UNCHANGED sliceVars
  \/ \E obj \in Users : CollectionAdd(obj) /\ UNCHANGED sliceVars
  \/ \E key \in Keys : CollectionRemove(key) /\ UNCHANGED sliceVars
  \/ CollectionToData /\ UNCHANGED sliceVars

SpecCollection == CollectionInit /\ [][CollectionNext]_vars

\* ---------------------------------------------------------- the database
\* The contents the 'users' store can have: each stored user under its own id.
StoreUsers == {u \in Users : u.id \in StoreKeys}
Stores ==
  {st \in UNION {[S -> StoreUsers] : S \in SUBSET StoreKeys} :
     \A k \in DOMAIN st : getUserKey(st[k]) = k}

StoreRange(st) == {st[k] : k \in DOMAIN st}

\* Partial<User>: the fields an update names ("keep" = the field is not named)
Partials == [firstName : Names \cup {"keep"}, lastName : Names \cup {"keep"}]

\* { ...obj, ...updates }
Merge(obj, updates) ==
  [id |-> obj.id,
   firstName |-> IF updates.firstName = "keep" THEN obj.firstName ELSE updates.firstName,
   lastName |-> IF updates.lastName = "keep" THEN obj.lastName ELSE updates.lastName]

\* The operations of a transaction on the 'users' store.
PutOps == {[op |-> "put", obj |-> u] : u \in StoreUsers}
UpdateOps == {[op |-> "update", key |-> k, updates |-> p] : k \in StoreKeys, p \in Partials}
DeleteOps == {[op |-> "delete", key |-> k] : k \in StoreKeys}
ClearOps == {[op |-> "clear"]}

\* Transaction.put / update / delete / clear: the store afterwards and the
\* change the request's onsuccess records (update records none for a missing key).
TxResult(st, changes) == [store |-> st, changes |-> changes]

put(st, obj) ==
  TxResult(MapSet(st, getUserKey(obj), obj),
           <<[type |-> "created", storeName |-> "users", obj |-> obj]>>)

update(st, key, updates) ==
  IF key \notin DOMAIN st THEN TxResult(st, <<>>)
  ELSE LET updated == Merge(st[key], updates)
       IN TxResult(MapSet(st, key, updated),
                   <<[type |-> "updated", storeName |-> "users", obj |-> updated]>>)

delete(st, key) ==
  TxResult(MapDelete(st, key), <<[type |-> "deleted", storeName |-> "users", key |-> key]>>)

\* A clear request that records no change.  C25_Clear tells it from clear.
clearSilently(st) == TxResult(EmptyIndex, <<>>)

clear(st) == TxResult(EmptyIndex, <<[type |-> "cleared", storeName |-> "users"]>>)

\* Transaction.put / Transaction.delete on the store 'other', whose records
\* the model does not keep
putOther(st, key) ==
  TxResult(st, <<[type |-> "created", storeName |-> "other", obj |-> [id |-> key]]>>)

deleteOther(st, key) ==
  TxResult(st, <<[type |-> "deleted", storeName |-> "other", key |-> key]>>)

applyOp(st, o) ==
  IF o.op = "put" THEN put(st, o.obj)
  ELSE IF o.op = "update" THEN update(st, o.key, o.updates)
  ELSE IF o.op = "delete" THEN delete(st, o.key)
  ELSE IF o.op = "putOther" THEN putOther(st, o.key)
  ELSE IF o.op = "deleteOther" THEN deleteOther(st, o.key)
  ELSE clear(st)

\* The requests of one transaction run in order; Transaction.onChange appends.
RECURSIVE runTransaction(_, _)
runTransaction(st, ops) ==
  IF ops = <<>> THEN TxResult(st, <<>>)
  ELSE LET first == applyOp(st, Head(ops))
           rest == runTransaction(first.store, Tail(ops))
       IN TxResult(rest.store, first.changes \o rest.changes)

\* The StoreChange of a cleared TransactionChange, as database.test.ts expects
\* it to reach the listeners.
clearedStoreChange == [type |-> "cleared"]

\* The switch of mapTransactionChangesToStoreChanges: the StoreChange pushed
\* for a TransactionChange
storeChange(transactionChange) ==
  IF transactionChange.type \in {"created", "updated"}
  THEN [type |-> transactionChange.type, obj |-> transactionChange.obj]
  ELSE IF transactionChange.type = "deleted"
  THEN [type |-> transactionChange.type, key |-> transactionChange.key]
  ELSE clearedStoreChange

\* A mapping that never finds the store's entry in the Map: one StoreChanges
\* per change.  C24_GroupedPerStore tells it from storeChangeLoop.
storeChangePerChange(storeChangeMap, transactionChanges) ==
  storeChangeMap \o
    [i \in 1..Len(transactionChanges) |->
       [storeName |-> transactionChanges[i].storeName,
        changes |-> <<storeChange(transactionChanges[i])>>]]

\* The loop of mapTransactionChangesToStoreChanges.  storeChangeMap is the Map
\* as the sequence of its values in insertion order.
RECURSIVE storeChangeLoop(_, _)
storeChangeLoop(storeChangeMap, transactionChanges) ==
  IF transactionChanges = <<>> THEN storeChangeMap
  ELSE LET transactionChange == Head(transactionChanges)
           got == {i \in 1..Len(storeChangeMap) :
                     storeChangeMap[i].storeName = transactionChange.storeName}
       IN IF got = {}
          THEN storeChangeLoop(
                 Append(storeChangeMap,
                        [storeName |-> transactionChange.storeName,
                         changes |-> <<storeChange(transactionChange)>>]),
                 Tail(transactionChanges))
          ELSE storeChangeLoop(
                 [storeChangeMap EXCEPT ![The(got)].changes =
                                          Append(@, storeChange(transactionChange))],
                 Tail(transactionChanges))

\* mapTransactionChangesToStoreChanges: one StoreChanges per store, in the
\* order the stores first occur, each carrying its store's changes in order
mapTransactionChangesToStoreChanges(transactionChanges) ==
  storeChangeLoop(<<>>, transactionChanges)

\* The transactions the model runs: one request, or two requests on one
\* record with a key up to MaxBatchKey (a put of it, and a delete of its key or
\* a clear, in either order).
Transactions ==
  {<<o>> : o \in PutOps \cup UpdateOps \cup DeleteOps \cup ClearOps}
  \cup UNION {{<<pd[1], pd[2]>>, <<pd[2], pd[1]>>} :
                pd \in {x \in PutOps \X (DeleteOps \cup ClearOps) :
                          /\ getUserKey(x[1].obj) <= MaxBatchKey
                          /\ x[2].op = "delete" => x[2].key = getUserKey(x[1].obj)}}

\* -------------------------------------------------------------- slice.ts
IndexPath == "lastName"
IndexValue == "A"

\* getKeyPathValue(obj, path) for the one-step paths of User
getKeyPathValue(obj, path) ==
  IF path = "lastName" THEN obj.lastName
  ELSE IF path = "firstName" THEN obj.firstName
  ELSE obj.id

\* the Predicate of the tests: (user) => /^B/.test(user.firstName)
filter(obj) == obj.firstName = "B"

\* Slice.isInIndex
isInIndex(obj) ==
  IF ~sliceIndex THEN TRUE ELSE getKeyPathValue(obj, IndexPath) = IndexValue

\* Slice.passesFilter
passesFilter(obj) == IF ~sliceFilter THEN TRUE ELSE filter(obj)

\* Slice.includeItem
includeItem(obj) == isInIndex(obj) /\ passesFilter(obj)

\* Slice.removeFromCollection: ret = the collection changed
removeFromCollection(c, key) ==
  IF has(c, key)
  THEN [remove(c, key) EXCEPT !.ret = TRUE]
  ELSE Outcome(c.ids, c.index, c.dataCache, FALSE, "none")

\* Slice.changeInCollection: ret = the collection changed
changeInCollection(c, obj) ==
  IF ~includeItem(obj)
  THEN (IF has(c, getUserKey(obj))
        THEN [remove(c, getUserKey(obj)) EXCEPT !.ret = TRUE]
        ELSE Outcome(c.ids, c.index, c.dataCache, FALSE, "none"))
  ELSE [add(c, obj) EXCEPT !.ret = TRUE]

\* A callback that skips the changes it does not recognize.
\* C22_UnhandledChange tells it from reduceChange.
reduceChangeIgnoring(c, change) ==
  IF change.type \in {"created", "updated"} THEN changeInCollection(c, change.obj)
  ELSE IF change.type = "deleted" THEN removeFromCollection(c, change.key)
  ELSE Outcome(c.ids, c.index, c.dataCache, FALSE, "none")

\* The callback of detail.changes.reduce(...) on one change
reduceChange(c, change) ==
  IF change.type \in {"created", "updated"} THEN changeInCollection(c, change.obj)
  ELSE IF change.type = "deleted" THEN removeFromCollection(c, change.key)
  ELSE Outcome(c.ids, c.index, c.dataCache, FALSE, "Unhandled change type")

\* detail.changes.reduce(...): a throw ends the handler where it is
RECURSIVE reduceChanges(_, _, _)
reduceChanges(c, changes, acc) ==
  IF changes = <<>> THEN Outcome(c.ids, c.index, c.dataCache, acc, "none")
  ELSE The({IF o.err # "none" THEN [o EXCEPT !.ret = acc]
            ELSE reduceChanges(o, Tail(changes), o.ret \/ acc) :
            o \in {reduceChange(c, Head(changes))}})

\* A handler that dispatches changed for every batch of its store that it
\* gets through.  C12_OneNotification tells it from databaseChangedHandler.
databaseChangedHandlerAlways(c, detail) ==
  IF detail.storeName # "users" THEN Outcome(c.ids, c.index, c.dataCache, FALSE, "none")
  ELSE The({IF o.err # "none" THEN [o EXCEPT !.ret = FALSE] ELSE [o EXCEPT !.ret = TRUE] :
            o \in {reduceChanges(c, detail.changes, FALSE)}})

\* Slice.databaseChangedHandler: ret = dispatchChanged was called
databaseChangedHandler(c, detail) ==
  IF detail.storeName # "users" THEN Outcome(c.ids, c.index, c.dataCache, FALSE, "none")
  ELSE The({IF o.err # "none" THEN [o EXCEPT !.ret = FALSE] ELSE o :
            o \in {reduceChanges(c, detail.changes, FALSE)}})

\* The users in ascending key order: the order getAll, getIndexAll (one index
\* value) and the cursors deliver them in.
RECURSIVE ByKey(_)
ByKey(users) ==
  IF users = {} THEN <<>>
  ELSE LET first == CHOOSE u \in users : \A v \in users : getUserKey(u) <= getUserKey(v)
       IN <<first>> \o ByKey(users \ {first})

\* Slice.getInitialItems: getIndexAll or getAll, or the cursor filtered by the predicate
getInitialItems(st) ==
  LET fetched == IF sliceIndex
                 THEN {u \in StoreRange(st) : getKeyPathValue(u, IndexPath) = IndexValue}
                 ELSE StoreRange(st)
      items == IF sliceFilter THEN {u \in fetched : filter(u)} ELSE fetched
  IN ByKey(items)

\* ------------------------------------------------------------ keyPath.ts
\* JavaScript values as getKeyPathValue meets them: undefined, null, a string,
\* a number, an object with its own properties (f).
Undefined == [t |-> "undefined", s |-> "", n |-> 0, f |-> <<>>]
Null == [t |-> "null", s |-> "", n |-> 0, f |-> <<>>]
Str(str) == [t |-> "string", s |-> str, n |-> 0, f |-> <<>>]
Num(num) == [t |-> "number", s |-> "", n |-> num, f |-> <<>>]
Obj(fields) == [t |-> "object", s |-> "", n |-> 0, f |-> fields]

\* current[step]: an own property of an object; undefined when the object has
\* no such property and on a string or a number
Get(current, step) ==
  IF current.t = "object" /\ step \in DOMAIN current.f THEN current.f[step] ELSE Undefined

\* a === b for a primitive b
StrictEquals(a, b) == a.t = b.t /\ a.s = b.s /\ a.n = b.n /\ a.t # "object"

\* the for loop of getKeyPathValue over the steps left
RECURSIVE walkSteps(_, _)
walkSteps(current, steps) ==
  IF steps = <<>> THEN current
  ELSE IF current.t \in {"null", "undefined"} THEN current
  ELSE walkSteps(Get(current, Head(steps)), Tail(steps))

\* getKeyPathValue(obj, path) on any object, steps = path.split('.')
getKeyPathValueSteps(obj, steps) ==
  IF obj.t \in {"null", "undefined"} THEN obj
  ELSE IF Len(steps) = 1 THEN Get(obj, steps[1])
  ELSE walkSteps(obj, steps)

\* Slice.isInIndex for the index { path, value }
isInIndexAt(obj, steps, value) ==
  IF obj.t = "object" THEN StrictEquals(getKeyPathValueSteps(obj, steps), value) ELSE FALSE

\* The User a stored object is to the key extractor and the Comparer
AsUser(obj) ==
  [id |-> obj.f["id"].n, firstName |-> obj.f["firstName"].s, lastName |-> obj.f["lastName"].s]

\* Slice.changeInCollection for a Slice with the index { path, value } and no
\* predicate
changeInCollectionAt(c, obj, steps, value) ==
  IF ~isInIndexAt(obj, steps, value)
  THEN (IF has(c, getUserKey(AsUser(obj)))
        THEN [remove(c, getUserKey(AsUser(obj))) EXCEPT !.ret = TRUE]
        ELSE Outcome(c.ids, c.index, c.dataCache, FALSE, "none"))
  ELSE [add(c, AsUser(obj)) EXCEPT !.ret = TRUE]

\* The values of the optional property `favorite` of a stored user
Favorites ==
  {Null, Str("A"), Obj(<<>>),
   Obj("color" :> Str("A")), Obj("color" :> Str("B")), Obj("color" :> Null),
   Obj("animal" :> Null), Obj("animal" :> Obj(<<>>)),
   Obj("animal" :> Obj("id" :> Str("A")))}

\* The optional properties of a stored user
Extras ==
  {<<>>, "callSign" :> Str("A"), "callSign" :> Str("B")}
  \cup {"favorite" :> v : v \in Favorites}

\* The stored users as objects, with and without the optional properties
JSUsers ==
  {Obj(("id" :> Num(u.id)) @@ ("firstName" :> Str(u.firstName))
       @@ ("lastName" :> Str(u.lastName)) @@ extra) :
     u \in StoreUsers, extra \in Extras}

\* The index paths, split at the dots
Paths ==
  {<<"lastName">>, <<"callSign">>, <<"favorite", "color">>, <<"favorite", "animal", "id">>}

\* A Slice with an index { path, value: 'A' } tracking up to two users is
\* handed a created or updated record.
KeyPathInit ==
  /\ \E objects \in {l \in UserLists : Len(l) <= 2} :
       \E o \in {reset([ids |-> <<>>, index |-> EmptyIndex, dataCache |-> NullCache],
                       objects)} :
         /\ ids = o.ids
         /\ index = o.index
         /\ dataCache = o.dataCache
  /\ held = "none"
  /\ snapshot = NoSnapshot
  /\ added = NoAdds
  /\ lastOp = [op |-> "new", ret |-> FALSE, err |-> "none", dispatched |-> 0,
               detail |-> <<>>]
  /\ args \in [obj : JSUsers, steps : Paths, value : {Str("A")}, called : {FALSE}]
  /\ args.steps = <<"lastName">> => \A k \in DOMAIN index : index[k].lastName = "A"
  /\ store = EmptyIndex
  /\ queue = <<>>
  /\ sliceIndex = TRUE
  /\ sliceFilter = FALSE
  /\ setupPromise = "null"
  /\ deregisterDatabaseListener = "null"
  /\ dbListeners = 0
  /\ inits = [current |-> FALSE, stale |-> 0, raced |-> FALSE, early |-> FALSE]
  /\ counter = NewCounter
  /\ entity = NewEntity(1)
  /\ eventTarget = NewEventTarget

\* The handler's changeInCollection(obj) call
ChangeInCollectionAt ==
  /\ ~args.called
  /\ \E o \in {changeInCollectionAt(Coll, args.obj, args.steps, args.value)} :
       /\ Apply(o)
       /\ lastOp' = Returned("changeInCollection", o)
  /\ args' = [args EXCEPT !.called = TRUE]
  /\ UNCHANGED <<added, store, queue, sliceIndex, sliceFilter, eventTarget, setupPromise,
                 deregisterDatabaseListener, dbListeners, inits, counter, entity>>

SpecKeyPath == KeyPathInit /\ [][ChangeInCollectionAt]_vars

\* ------------------------------------------------ the Slice and its store
Call(name, r, e, n) ==
  [op |-> name, ret |-> r, err |-> e, dispatched |-> n, detail |-> <<>>]

\* DatabaseChangeConnector.subscribe: a new handler for the callback, added to
\* the listeners of 'changed'
subscribe(et) ==
  [et EXCEPT !.handlers = Append(@, Len(et.called) + 1), !.called = Append(@, 0)]

\* An unregister function that removes no listener (it hands the callback,
\* not the handler, to removeEventListener).  C26_Subscribed tells it from
\* unsubscribe.
unsubscribeCallback(et, id) == [et EXCEPT !.unsubscribed = @ \cup {id}]

\* The function subscribe returned for its call number id: removeEventListener
\* of that call's handler
unsubscribe(et, id) ==
  LET Other(h) == h # id
  IN [et EXCEPT !.handlers = SelectSeq(@, Other), !.unsubscribed = @ \cup {id}]

\* n calls of DatabaseChangeConnector.dispatchChanged: each dispatchEvent runs
\* every handler in the list once
dispatchChanged(et, n) ==
  [et EXCEPT !.called =
     [id \in DOMAIN @ |-> @[id] + n * Cardinality({i \in 1..Len(et.handlers) :
                                                     et.handlers[i] = id})]]

\* new Slice({database, storeName: 'users', compare: compareUsers, index?, filter?})
\* over a database whose store holds any users.
Init ==
  /\ ids = <<>>
  /\ index = EmptyIndex
  /\ dataCache = NullCache
  /\ held = "none"
  /\ snapshot = NoSnapshot
  /\ added = NoAdds
  /\ lastOp = Call("new", FALSE, "none", 0)
  /\ store \in Stores
  /\ queue = <<>>
  /\ sliceIndex \in BOOLEAN
  /\ sliceFilter \in BOOLEAN
  /\ setupPromise = "null"
  /\ deregisterDatabaseListener = "null"
  /\ dbListeners = 0
  /\ inits = [current |-> FALSE, stale |-> 0, raced |-> FALSE, early |-> FALSE]
  /\ counter = NewCounter
  /\ entity = NewEntity(1)
  /\ args = <<>>
  /\ eventTarget = NewEventTarget

\* A setup without the setupPromise guard: every call registers a listener
\* and starts the initializer.  C14_SetupIdempotent tells it from Setup.
SetupAgain ==
  /\ dbListeners < MaxPending
  /\ dbListeners' = dbListeners + 1
  /\ deregisterDatabaseListener' = "registered"
  /\ setupPromise' = "pending"
  /\ inits' = [inits EXCEPT !.current = TRUE]
  /\ lastOp' = Call("setup", TRUE, "none", 0)
  /\ UNCHANGED <<collectionVars, store, queue, sliceIndex, sliceFilter, args, eventTarget, counter, entity>>

\* Slice.setup -> DatabaseChangeConnector.setup: ret = the initializer was started
Setup ==
  /\ IF setupPromise # "null"
     THEN /\ lastOp' = Call("setup", FALSE, "none", 0)
          /\ UNCHANGED <<setupPromise, deregisterDatabaseListener, dbListeners, inits>>
     ELSE /\ inits.stale < MaxPending
          /\ dbListeners' = dbListeners + 1
          /\ deregisterDatabaseListener' = "registered"
          /\ setupPromise' = "pending"
          /\ inits' = [inits EXCEPT !.current = TRUE, !.raced = inits.stale > 0, !.early = FALSE]
          /\ lastOp' = Call("setup", TRUE, "none", 0)
  /\ UNCHANGED <<collectionVars, store, queue, sliceIndex, sliceFilter, args, eventTarget, counter, entity>>

\* A teardown that clears the setup promise and leaves the listener
\* registered.  C15_Teardown tells it from Teardown.
TeardownKeepListener ==
  /\ setupPromise' = "null"
  /\ inits' = IF inits.current THEN [current |-> FALSE, stale |-> inits.stale + 1, raced |-> FALSE,
                                         early |-> FALSE]
              ELSE [inits EXCEPT !.raced = FALSE, !.early = FALSE]
  /\ lastOp' = Call("teardown", FALSE, "none", 0)
  /\ UNCHANGED <<collectionVars, store, queue, sliceIndex, sliceFilter, args, eventTarget, counter, entity,
                 deregisterDatabaseListener, dbListeners>>

\* Slice.teardown -> DatabaseChangeConnector.teardown: the initializer still
\* running is not cancelled, its promise is only forgotten.
Teardown ==
  /\ dbListeners' = IF deregisterDatabaseListener = "registered"
                    THEN dbListeners - 1 ELSE dbListeners
  /\ deregisterDatabaseListener' = IF deregisterDatabaseListener = "registered"
                                   THEN "removed" ELSE deregisterDatabaseListener
  /\ setupPromise' = "null"
  /\ inits' = IF inits.current THEN [current |-> FALSE, stale |-> inits.stale + 1, raced |-> FALSE,
                                         early |-> FALSE]
              ELSE [inits EXCEPT !.raced = FALSE, !.early = FALSE]
  /\ lastOp' = Call("teardown", FALSE, "none", 0)
  /\ UNCHANGED <<collectionVars, store, queue, sliceIndex, sliceFilter, args, eventTarget, counter, entity>>

\* An initializer that leaves the collection as it is when the listener has
\* already run on a batch.  C33_EarlyBatch tells it from InitializeCollection.
InitializeCollectionUnlessEarly(current) ==
  /\ IF current THEN inits.current ELSE inits.stale > 0
  /\ \E o \in {IF inits.early THEN Outcome(ids, index, dataCache, FALSE, "none")
                ELSE reset(Coll, getInitialItems(store))} : Assign(o)
  /\ inits' = IF current THEN [inits EXCEPT !.current = FALSE]
              ELSE [inits EXCEPT !.stale = inits.stale - 1]
  /\ setupPromise' = IF current THEN "resolved" ELSE setupPromise
  /\ lastOp' = Call("initializeCollection", FALSE, "none", 1)
  /\ eventTarget' = dispatchChanged(eventTarget, 1)
  /\ UNCHANGED <<added, store, queue, sliceIndex, sliceFilter, args,
                 deregisterDatabaseListener, dbListeners, counter, entity>>

\* Slice.initializeCollection once its fetch has resolved: the request's result
\* reaches reset in the same task, so the items are the store's at this step.
\* current = it is the run the present setupPromise waits for.
InitializeCollection(current) ==
  /\ IF current THEN inits.current ELSE inits.stale > 0
  /\ \E o \in {reset(Coll, getInitialItems(store))} : Assign(o)
  /\ inits' = IF current THEN [inits EXCEPT !.current = FALSE]
              ELSE [inits EXCEPT !.stale = inits.stale - 1]
  /\ setupPromise' = IF current THEN "resolved" ELSE setupPromise
  /\ lastOp' = Call("initializeCollection", FALSE, "none", 1)
  /\ eventTarget' = dispatchChanged(eventTarget, 1)
  /\ UNCHANGED <<added, store, queue, sliceIndex, sliceFilter, args,
                 deregisterDatabaseListener, dbListeners, counter, entity>>

\* An initializer that catches the rejection and resets the collection to no
\* records.  C21_FetchRejected tells it from InitializeRejected.
InitializeRejectedReset(current) ==
  /\ IF current THEN inits.current ELSE inits.stale > 0
  /\ \E o \in {reset(Coll, <<>>)} : Assign(o)
  /\ inits' = IF current THEN [inits EXCEPT !.current = FALSE]
              ELSE [inits EXCEPT !.stale = inits.stale - 1]
  /\ setupPromise' = IF current THEN "resolved" ELSE setupPromise
  /\ lastOp' = Call("initializeCollection", FALSE, "none", 1)
  /\ eventTarget' = dispatchChanged(eventTarget, 1)
  /\ UNCHANGED <<added, store, queue, sliceIndex, sliceFilter, args,
                 deregisterDatabaseListener, dbListeners, counter, entity>>

\* The fetch is rejected by the storage engine.
InitializeRejected(current) ==
  /\ IF current THEN inits.current ELSE inits.stale > 0
  /\ inits' = IF current THEN [inits EXCEPT !.current = FALSE]
              ELSE [inits EXCEPT !.stale = inits.stale - 1]
  /\ setupPromise' = IF current THEN "rejected" ELSE setupPromise
  /\ lastOp' = Call("initializeCollection", FALSE, "rejected", 0)
  /\ UNCHANGED <<collectionVars, store, queue, sliceIndex, sliceFilter, args, eventTarget,
                 deregisterDatabaseListener, dbListeners, counter, entity>>

\* A readwrite transaction on 'users' completes: Database.dispatchChanges
Transact(ops) ==
  /\ Len(queue) < MaxQueue
  /\ \E done \in {runTransaction(store, ops)} :
     /\ store' = done.store
     /\ queue' = queue \o mapTransactionChangesToStoreChanges(done.changes)
  /\ lastOp' = Call("transaction", FALSE, "none", 0)
  /\ UNCHANGED <<collectionVars, sliceIndex, sliceFilter, args, eventTarget, setupPromise,
                 deregisterDatabaseListener, dbListeners, inits, counter, entity>>

\* Database.clear('users'): a transaction of the one request Transaction.clear
DatabaseClear == Transact(<<[op |-> "clear"]>>)

\* A transaction on another store of the database completes.
TransactOther ==
  /\ Len(queue) < MaxQueue
  /\ queue' = queue \o mapTransactionChangesToStoreChanges(deleteOther(store, 1).changes)
  /\ lastOp' = Call("transaction", FALSE, "none", 0)
  /\ UNCHANGED <<collectionVars, store, sliceIndex, sliceFilter, args, eventTarget, setupPromise,
                 deregisterDatabaseListener, dbListeners, inits, counter, entity>>

\* EventTarget.dispatchEvent runs every registered listener; a listener's
\* throw is reported and the next one still runs.  err = the last error thrown,
\* dispatched = the changed events the runs dispatched.
RECURSIVE runListeners(_, _, _, _)
runListeners(c, n, detail, sofar) ==
  IF n = 0 THEN [ids |-> c.ids, index |-> c.index, dataCache |-> c.dataCache,
                 err |-> sofar.err, dispatched |-> sofar.dispatched]
  ELSE The({runListeners(o, n - 1, detail,
                         [err |-> IF o.err # "none" THEN o.err ELSE sofar.err,
                          dispatched |-> sofar.dispatched + (IF o.ret THEN 1 ELSE 0)]) :
            o \in {databaseChangedHandler(c, detail)}})

\* ------------------------------------------------------------ counter.ts
\* The count updateCount fetches: getCount, getIndexCount, or the cursor
\* counted through the predicate.
nextCount(st) ==
  Cardinality({u \in StoreRange(st) :
                 /\ sliceIndex => getKeyPathValue(u, IndexPath) = IndexValue
                 /\ sliceFilter => filter(u)})

\* An updateCount that dispatches changed whether or not the count differs.
\* C17_CountChanged tells it from updateCount.
updateCountAlways(c, n) == [c EXCEPT !.count = <<n>>, !.dispatched = 1]

\* Counter.updateCount once its fetch has resolved with n
updateCount(c, n) ==
  IF <<n>> # c.count
  THEN [c EXCEPT !.count = <<n>>, !.dispatched = 1]
  ELSE [c EXCEPT !.dispatched = 0]

\* A handler that starts an updateCount for the batches of every store.
\* C13_OtherStoreIgnored tells it from CounterDatabaseChangedHandler.
CounterHandlerEveryStore(c, detail) ==
  [c EXCEPT !.updates = @ + 1, !.dispatched = 0, !.overlap = c.updates > 0 \/ c.init]

\* Counter.databaseChangedHandler: a batch of its store starts an updateCount.
\* overlap = the last one was started while another updateCount was pending.
CounterDatabaseChangedHandler(c, detail) ==
  IF detail.storeName # "users" THEN [c EXCEPT !.dispatched = 0]
  ELSE [c EXCEPT !.updates = @ + 1, !.dispatched = 0, !.overlap = c.updates > 0 \/ c.init]

\* Counter.setup -> DatabaseChangeConnector.setup
CounterSetup ==
  /\ counter' = IF counter.setupPromise # "null"
                THEN [counter EXCEPT !.dispatched = 0]
                ELSE [counter EXCEPT !.setupPromise = "pending", !.listening = TRUE,
                                     !.init = TRUE, !.dispatched = 0]
  /\ lastOp' = Call("Counter.setup", counter.setupPromise = "null", "none", 0)
  /\ UNCHANGED <<collectionVars, store, queue, sliceIndex, sliceFilter, args, eventTarget, setupPromise,
                 deregisterDatabaseListener, dbListeners, inits, entity>>

\* A resolution that drops the fetched count when the last updateCount was
\* started while another was pending.  C34_LateCount tells it from
\* UpdateCountResolved.
UpdateCountDropped(initial) ==
  /\ IF initial THEN counter.init ELSE counter.updates > 0
  /\ \E c \in {IF counter.overlap THEN [counter EXCEPT !.dispatched = 0]
                ELSE updateCount(counter, nextCount(store))} :
       /\ counter' = IF initial
                     THEN [c EXCEPT !.init = FALSE, !.setupPromise = "resolved"]
                     ELSE [c EXCEPT !.updates = @ - 1]
       /\ lastOp' = Call("updateCount", c.dispatched > 0, "none", c.dispatched)
  /\ UNCHANGED <<collectionVars, store, queue, sliceIndex, sliceFilter, args, eventTarget, setupPromise,
                 deregisterDatabaseListener, dbListeners, inits, entity>>

\* An updateCount's fetch resolves: the initializer's (initial) or one a batch
\* started.  The request's result reaches the comparison in the same task.
UpdateCountResolved(initial) ==
  /\ IF initial THEN counter.init ELSE counter.updates > 0
  /\ \E c \in {updateCount(counter, nextCount(store))} :
       /\ counter' = IF initial
                     THEN [c EXCEPT !.init = FALSE, !.setupPromise = "resolved"]
                     ELSE [c EXCEPT !.updates = @ - 1]
       /\ lastOp' = Call("updateCount", c.dispatched > 0, "none", c.dispatched)
  /\ UNCHANGED <<collectionVars, store, queue, sliceIndex, sliceFilter, args, eventTarget, setupPromise,
                 deregisterDatabaseListener, dbListeners, inits, entity>>

\* ------------------------------------------------------------- entity.ts
Found(obj) == [status |-> "FOUND", entity |-> <<obj>>]
NotFound_ == [status |-> "NOT_FOUND", entity |-> <<>>]

\* A loop that takes the first change as a delete of its key, whatever the
\* change is.  C20_OtherKeys tells it from entityChanges.
entityChangesAnyKey(e, changes) ==
  IF changes = <<>> THEN e
  ELSE [e EXCEPT !.snapshot = NotFound_, !.assigned = TRUE]

\* The for loop of Entity.databaseChangedHandler: assigned is its `changed`,
\* a throw ends the handler where it is.
RECURSIVE entityChanges(_, _)
entityChanges(e, changes) ==
  IF changes = <<>> THEN e
  ELSE IF Head(changes).type \in {"created", "updated"}
  THEN entityChanges(IF getUserKey(Head(changes).obj) = e.key
                     THEN [e EXCEPT !.snapshot = Found(Head(changes).obj), !.assigned = TRUE]
                     ELSE e,
                     Tail(changes))
  ELSE IF Head(changes).type = "deleted"
  THEN entityChanges(IF Head(changes).key = e.key
                     THEN [e EXCEPT !.snapshot = NotFound_, !.assigned = TRUE]
                     ELSE e,
                     Tail(changes))
  ELSE [e EXCEPT !.err = "Unhandled change type"]

\* Entity.databaseChangedHandler
EntityDatabaseChangedHandler(e, detail) ==
  IF detail.storeName # "users"
  THEN [e EXCEPT !.assigned = FALSE, !.dispatched = 0, !.err = "none"]
  ELSE The({[o EXCEPT !.dispatched = IF o.err = "none" /\ o.assigned THEN 1 ELSE 0] :
            o \in {entityChanges([e EXCEPT !.assigned = FALSE, !.dispatched = 0,
                                           !.err = "none"], detail.changes)}})

\* Entity.setup -> DatabaseChangeConnector.setup
EntitySetup ==
  /\ entity.setupPromise = "null" => entity.stale < MaxPending
  /\ entity' = IF entity.setupPromise # "null"
               THEN [entity EXCEPT !.assigned = FALSE, !.dispatched = 0, !.err = "none"]
               ELSE [entity EXCEPT !.setupPromise = "pending", !.listening = TRUE,
                                   !.init = TRUE, !.assigned = FALSE,
                                   !.dispatched = 0, !.err = "none"]
  /\ lastOp' = Call("Entity.setup", entity.setupPromise = "null", "none", 0)
  /\ UNCHANGED <<collectionVars, store, queue, sliceIndex, sliceFilter, args, eventTarget, setupPromise,
                 deregisterDatabaseListener, dbListeners, inits, counter>>

\* A teardown that also puts the snapshot back to LOADING.
\* C39_NeverLoadingAgain tells it from EntityTeardown.
EntityTeardownToLoading ==
  /\ entity' = [entity EXCEPT !.setupPromise = "null", !.listening = FALSE,
                              !.init = FALSE,
                              !.stale = IF entity.init THEN @ + 1 ELSE @,
                              !.snapshot = [status |-> "LOADING", entity |-> <<>>],
                              !.assigned = TRUE, !.dispatched = 0, !.err = "none",
                              !.early = FALSE]
  /\ lastOp' = Call("Entity.teardown", FALSE, "none", 0)
  /\ UNCHANGED <<collectionVars, store, queue, sliceIndex, sliceFilter, args, eventTarget, setupPromise,
                 deregisterDatabaseListener, dbListeners, inits, counter>>

\* Entity.teardown -> DatabaseChangeConnector.teardown: the listener is
\* deregistered and the setup promise forgotten; a lookup still running
\* (stale counts them) is not cancelled, the snapshot is left as it is.
EntityTeardown ==
  /\ entity' = [entity EXCEPT !.setupPromise = "null", !.listening = FALSE,
                              !.init = FALSE,
                              !.stale = IF entity.init THEN @ + 1 ELSE @,
                              !.assigned = FALSE, !.dispatched = 0, !.err = "none",
                              !.early = FALSE]
  /\ lastOp' = Call("Entity.teardown", FALSE, "none", 0)
  /\ UNCHANGED <<collectionVars, store, queue, sliceIndex, sliceFilter, args, eventTarget, setupPromise,
                 deregisterDatabaseListener, dbListeners, inits, counter>>

\* Entity.initializeEntity of a setup torn down since, once its database.get
\* has resolved: it assigns and dispatches as any other.
InitializeStaleEntity ==
  /\ entity.stale > 0
  /\ entity' = [entity EXCEPT
                  !.snapshot = IF entity.key \in DOMAIN store
                               THEN Found(store[entity.key]) ELSE NotFound_,
                  !.stale = @ - 1,
                  !.assigned = TRUE, !.dispatched = 1, !.err = "none"]
  /\ lastOp' = Call("initializeEntity", FALSE, "none", 1)
  /\ UNCHANGED <<collectionVars, store, queue, sliceIndex, sliceFilter, args, eventTarget, setupPromise,
                 deregisterDatabaseListener, dbListeners, inits, counter>>

\* Entity.initializeEntity once database.get has resolved
InitializeEntity ==
  /\ entity.init
  /\ entity' = [entity EXCEPT
                  !.snapshot = IF entity.key \in DOMAIN store
                               THEN Found(store[entity.key]) ELSE NotFound_,
                  !.init = FALSE, !.setupPromise = "resolved",
                  !.assigned = TRUE, !.dispatched = 1, !.err = "none"]
  /\ lastOp' = Call("initializeEntity", FALSE, "none", 1)
  /\ UNCHANGED <<collectionVars, store, queue, sliceIndex, sliceFilter, args, eventTarget, setupPromise,
                 deregisterDatabaseListener, dbListeners, inits, counter>>

\* Database.dispatch of the oldest undelivered event to the listeners of the
\* Slice, the Counter and the Entity; lastOp tells of the Slice's.
Deliver ==
  /\ queue # <<>>
  /\ counter.listening /\ Head(queue).storeName = "users" => counter.updates < MaxUpdates
  /\ \E o \in {runListeners(Coll, dbListeners, Head(queue),
                             [err |-> "none", dispatched |-> 0])} :
     /\ Apply(o)
     /\ lastOp' = [Call("changed", o.dispatched > 0, o.err, o.dispatched)
                    EXCEPT !.detail = <<Head(queue)>>]
     /\ eventTarget' = dispatchChanged(eventTarget, o.dispatched)
  /\ counter' = IF counter.listening
                THEN CounterDatabaseChangedHandler(counter, Head(queue)) ELSE counter
  /\ entity' = IF entity.listening
               THEN [EntityDatabaseChangedHandler(entity, Head(queue)) EXCEPT
                       !.early = IF Head(queue).storeName = "users" THEN entity.init ELSE @]
               ELSE entity
  /\ inits' = [inits EXCEPT
                !.early = IF Head(queue).storeName = "users"
                          THEN inits.current /\ dbListeners > 0 ELSE @]
  /\ queue' = Tail(queue)
  /\ UNCHANGED <<added, store, sliceIndex, sliceFilter, args, setupPromise,
                 deregisterDatabaseListener, dbListeners>>

\* Slice.getSnapshot
GetSnapshot ==
  /\ CollectionToData
  /\ UNCHANGED sliceVars

\* A Slice that is set up once and then follows its store.
Next ==
  \/ setupPromise = "null" /\ Setup
  \/ InitializeCollection(TRUE)
  \/ \E ops \in Transactions : Transact(ops)
  \/ TransactOther
  \/ Deliver
  \/ GetSnapshot

Spec == Init /\ [][Next]_vars

\* The requests on the record with a key up to MaxBatchKey
BatchKeyOps ==
  {o \in PutOps : getUserKey(o.obj) <= MaxBatchKey}
  \cup {o \in DeleteOps : o.key <= MaxBatchKey}

\* A Slice that is set up and torn down any number of times, while one record
\* of the store is written and deleted.
LifecycleNext ==
  \/ Setup
  \/ Teardown
  \/ \E current \in BOOLEAN : InitializeCollection(current)
  \/ \E current \in BOOLEAN : InitializeRejected(current)
  \/ \E o \in BatchKeyOps : Transact(<<o>>)
  \/ TransactOther
  \/ Deliver
  \/ GetSnapshot

SpecLifecycle == Init /\ [][LifecycleNext]_vars

\* A Slice and a Counter with the Slice's index and filter, each set up once
\* on one database whose store is written one request at a time.
CounterNext ==
  \/ setupPromise = "null" /\ Setup
  \/ InitializeCollection(TRUE)
  \/ counter.setupPromise = "null" /\ CounterSetup
  \/ \E initial \in BOOLEAN : UpdateCountResolved(initial)
  \/ \E o \in PutOps \cup DeleteOps \cup ClearOps : Transact(<<o>>)
  \/ TransactOther
  \/ Deliver

SpecCounter == Init /\ [][CounterNext]_vars

\* An Entity on any key of the store, set up once.
EntityInit ==
  /\ ids = <<>>
  /\ index = EmptyIndex
  /\ dataCache = NullCache
  /\ held = "none"
  /\ snapshot = NoSnapshot
  /\ added = NoAdds
  /\ lastOp = Call("new", FALSE, "none", 0)
  /\ store \in Stores
  /\ queue = <<>>
  /\ sliceIndex = FALSE
  /\ sliceFilter = FALSE
  /\ setupPromise = "null"
  /\ deregisterDatabaseListener = "null"
  /\ dbListeners = 0
  /\ inits = [current |-> FALSE, stale |-> 0, raced |-> FALSE, early |-> FALSE]
  /\ counter = NewCounter
  /\ entity \in {NewEntity(key) : key \in StoreKeys}
  /\ args = <<>>
  /\ eventTarget = NewEventTarget

EntityNext ==
  \/ entity.setupPromise = "null" /\ EntitySetup
  \/ InitializeEntity
  \/ \E ops \in Transactions : Transact(ops)
  \/ TransactOther
  \/ Deliver

SpecEntity == EntityInit /\ [][EntityNext]_vars

\* An Entity that is set up and torn down any number of times.
EntityLifecycleNext ==
  \/ EntitySetup
  \/ EntityTeardown
  \/ InitializeEntity
  \/ InitializeStaleEntity
  \/ \E ops \in Transactions : Transact(ops)
  \/ TransactOther
  \/ Deliver

SpecEntityLifecycle == EntityInit /\ [][EntityLifecycleNext]_vars

\* A Slice, a Counter and an Entity on one database, each set up once, while
\* one record of the store is written and deleted and the store is cleared.
StoresNext ==
  \/ setupPromise = "null" /\ Setup
  \/ InitializeCollection(TRUE)
  \/ counter.setupPromise = "null" /\ CounterSetup
  \/ \E initial \in BOOLEAN : UpdateCountResolved(initial)
  \/ entity.setupPromise = "null" /\ EntitySetup
  \/ InitializeEntity
  \/ \E o \in BatchKeyOps \cup ClearOps : Transact(<<o>>)
  \/ TransactOther
  \/ Deliver

SpecStores == EntityInit /\ [][StoresNext]_vars

\* Transactions over two stores.  Its requests: a put, an update or a delete
\* of the record with a key up to MaxBatchKey of 'users', or a put or a delete
\* on 'other'; up to MaxTxLen of them.
MaxTxLen == 3

TxOps ==
  BatchKeyOps
  \cup {o \in UpdateOps : o.key <= MaxBatchKey}
  \cup {[op |-> "putOther", key |-> 1], [op |-> "deleteOther", key |-> 1]}

TxSeqs == UNION {[1..n -> TxOps] : n \in 1..MaxTxLen}

\* Database.transaction(['users', 'other'], 'readwrite'), the requests, and
\* the dispatchChanges that follows tx.promise; args keeps transaction.changes.
\* A behaviour runs one such transaction.
TransactStores(ops) ==
  /\ args = <<>>
  /\ queue = <<>>
  /\ \E done \in {runTransaction(store, ops)} :
     /\ store' = done.store
     /\ queue' = mapTransactionChangesToStoreChanges(done.changes)
     /\ args' = [changes |-> done.changes]
  /\ lastOp' = Call("transaction", FALSE, "none", 0)
  /\ UNCHANGED <<collectionVars, sliceIndex, sliceFilter, eventTarget, setupPromise,
                 deregisterDatabaseListener, dbListeners, inits, counter, entity>>

ChangesNext ==
  \/ \E ops \in TxSeqs : TransactStores(ops)
  \/ Deliver

SpecChanges == Init /\ [][ChangesNext]_vars

\* A Slice with up to MaxSubs subscribe calls, each callback counted up to
\* MaxCalls runs.
MaxSubs == 2
MaxCalls == 2

\* slice.subscribe(callback)
Subscribe ==
  /\ Len(eventTarget.called) < MaxSubs
  /\ eventTarget' = subscribe(eventTarget)
  /\ lastOp' = Call("subscribe", FALSE, "none", 0)
  /\ UNCHANGED <<collectionVars, store, queue, sliceIndex, sliceFilter, args, setupPromise,
                 deregisterDatabaseListener, dbListeners, inits, counter, entity>>

\* A call of the function the subscribe call number id returned
Unsubscribe(id) ==
  /\ id \in 1..Len(eventTarget.called)
  /\ eventTarget' = unsubscribe(eventTarget, id)
  /\ lastOp' = Call("unsubscribe", FALSE, "none", 0)
  /\ UNCHANGED <<collectionVars, store, queue, sliceIndex, sliceFilter, args, setupPromise,
                 deregisterDatabaseListener, dbListeners, inits, counter, entity>>

CallsLeft == \A id \in 1..Len(eventTarget.called) : eventTarget.called[id] < MaxCalls

SubscribeNext ==
  \/ setupPromise = "null" /\ Setup
  \/ CallsLeft /\ InitializeCollection(TRUE)
  \/ \E o \in BatchKeyOps : Transact(<<o>>)
  \/ CallsLeft /\ Deliver
  \/ Subscribe
  \/ \E id \in 1..MaxSubs : Unsubscribe(id)

SpecSubscribe == EntityInit /\ [][SubscribeNext]_vars

\* The binary searches called directly: an array of up to MaxSearchKey
\* distinct keys in any order, compared through the records an index resolves
\* them to, and an item whose record the index holds.
MaxSearchKey == 4
SearchKeys == 1..MaxSearchKey

SearchIndexes ==
  {[k \in SearchKeys |-> [id |-> k, firstName |-> f[k][1], lastName |-> f[k][2]]] :
     f \in [SearchKeys -> Names \X Names]}

SearchItems ==
  {items \in UNION {[1..n -> SearchKeys] : n \in 0..MaxSearchKey} :
     \A i, j \in 1..Len(items) : i # j => items[i] # items[j]}

SearchInit ==
  /\ ids = <<>>
  /\ index = EmptyIndex
  /\ dataCache = NullCache
  /\ held = "none"
  /\ snapshot = NoSnapshot
  /\ added = NoAdds
  /\ lastOp = Call("new", FALSE, "none", 0)
  /\ args \in [idx : SearchIndexes, items : SearchItems, item : SearchKeys, called : {{}}]
  /\ store = EmptyIndex
  /\ queue = <<>>
  /\ sliceIndex = FALSE
  /\ sliceFilter = FALSE
  /\ setupPromise = "null"
  /\ deregisterDatabaseListener = "null"
  /\ dbListeners = 0
  /\ inits = [current |-> FALSE, stale |-> 0, raced |-> FALSE, early |-> FALSE]
  /\ counter = NewCounter
  /\ entity = NewEntity(1)
  /\ eventTarget = NewEventTarget

\* findIndex(compare, items, item)
CallFindIndex ==
  /\ "findIndex" \notin args.called
  /\ \E r \in {findIndex(args.idx, args.items, args.item)} :
       lastOp' = [Call("findIndex", r.found, r.err, 0) EXCEPT !.detail = <<r>>]
  /\ args' = [args EXCEPT !.called = @ \cup {"findIndex"}]
  /\ UNCHANGED <<collectionVars, store, queue, sliceIndex, sliceFilter, eventTarget,
                 setupPromise, deregisterDatabaseListener, dbListeners, inits, counter,
                 entity>>

\* getInsertIndex(compare, items, item)
CallGetInsertIndex ==
  /\ "getInsertIndex" \notin args.called
  /\ \E r \in {getInsertIndex(args.idx, args.items, args.item)} :
       lastOp' = [Call("getInsertIndex", r.found, r.err, 0) EXCEPT !.detail = <<r>>]
  /\ args' = [args EXCEPT !.called = @ \cup {"getInsertIndex"}]
  /\ UNCHANGED <<collectionVars, store, queue, sliceIndex, sliceFilter, eventTarget,
                 setupPromise, deregisterDatabaseListener, dbListeners, inits, counter,
                 entity>>

SearchNext == CallFindIndex \/ CallGetInsertIndex

SpecSearch == SearchInit /\ [][SearchNext]_vars

\* ======================================================= the properties
NoDuplicates(items) == \A i, j \in 1..Len(items) : i # j => items[i] # items[j]

\* items is in Comparer order over the records idx resolves its keys to
Sorted(idx, items) ==
  \A i \in 1..(Len(items) - 1) :
    /\ items[i] \in DOMAIN idx
    /\ items[i + 1] \in DOMAIN idx
    /\ compareUsers(idx[items[i]], idx[items[i + 1]]) <= 0

\* the number of times key occurs in items
Occurrences(items, key) == Cardinality({i \in 1..Len(items) : items[i] = key})

\* items without key, the other keys in their order
Without(items, key) == SelectSeq(items, LAMBDA x : x # key)

\* two of the records compare equal
Ties(objects) ==
  \E i, j \in 1..Len(objects) : i # j /\ compareUsers(objects[i], objects[j]) = 0

\* a Collection constructed with no objects
EmptyCollection == [ids |-> <<>>, index |-> EmptyIndex, dataCache |-> NullCache]

\* the records of the store that the Slice's configuration includes
Included(st) ==
  {u \in StoreRange(st) :
     /\ sliceIndex => u.lastName = "A"
     /\ sliceFilter => u.firstName = "B"}

\* the step delivers a batch of one change of one of the types to the Slice
OneChange(types) ==
  /\ Deliver
  /\ dbListeners = 1
  /\ Head(queue).storeName = "users"
  /\ Len(Head(queue).changes) = 1
  /\ Head(queue).changes[1].type \in types

\* C1: after every add and remove call on a constructed Collection,
\* toData().ids is sorted by the Comparer over the records its keys resolve to,
\* holds no key twice, and its keys are exactly the keys of toData().index
\* (as many ids as index entries).
C1_SortInvariant ==
  LET data == toData(Coll) IN
  /\ Sorted(data.index, data.ids)
  /\ NoDuplicates(data.ids)
  /\ Range(data.ids) = DOMAIN data.index
  /\ Len(data.ids) = Cardinality(DOMAIN data.index)

\* C2: a toData() call with no mutation since the last one returns the object
\* the last one returned; after any add, any reset and any remove of a present
\* key the object the consumer holds is no longer what toData() returns, and
\* the object returned next carries the new ids and index.
C2_SnapshotStability ==
  [][/\ (CollectionToData /\ held = "cache") =>
          (lastOp'.ret = TRUE /\ dataCache' = dataCache /\ held' = "cache")
     /\ (\/ lastOp'.op \in {"add", "reset"}
         \/ lastOp'.op = "remove" /\ \E key \in DOMAIN index : CollectionRemove(key)) =>
          /\ held' # "cache"
          /\ toData(Coll)'.ids = ids'
          /\ toData(Coll)'.index = index'
     /\ (CollectionToData /\ held = "old") =>
          (lastOp'.ret = FALSE /\ dataCache'.ids = ids /\ dataCache'.index = index)]_vars

\* C3: once setup() has completed and every change batch has been delivered,
\* the snapshot's index holds exactly the store's records that pass the Index
\* Filter and the Predicate Filter, and ids lists their keys, each once, in
\* Comparer order.
C3_SliceSynchronized ==
  (setupPromise = "resolved" /\ queue = <<>>) =>
    LET data == toData(Coll) IN
    /\ DOMAIN data.index = {getUserKey(u) : u \in Included(store)}
    /\ \A k \in DOMAIN data.index : data.index[k] = store[k]
    /\ Range(data.ids) = DOMAIN data.index
    /\ NoDuplicates(data.ids)
    /\ Sorted(data.index, data.ids)

\* C4: on a created or updated change for the Slice's store, an included
\* record is added (its key once in ids, the index entry overwritten, the
\* other keys in their order); a record not included whose key is tracked has
\* its key removed from ids and index; a record not included and not tracked
\* leaves the Collection and the snapshot object as they are.
C4_CreatedOrUpdated ==
  [][OneChange({"created", "updated"}) =>
       LET obj == Head(queue).changes[1].obj
           key == getUserKey(obj)
       IN IF obj \in Included(MapSet(EmptyIndex, key, obj))
          THEN /\ index' = MapSet(index, key, obj)
               /\ Occurrences(ids', key) = 1
               /\ Without(ids', key) = Without(ids, key)
          ELSE IF has(Coll, key)
          THEN /\ index' = MapDelete(index, key)
               /\ ids' = Without(ids, key)
          ELSE /\ ids' = ids
               /\ index' = index
               /\ dataCache' = dataCache
               /\ held' = held]_vars

\* C5: every record a Slice holds passes the Index Filter when one is set and
\* the Predicate Filter when one is set, and an update that makes a tracked
\* record fail either of them removes the record.
C5_BothFilters ==
  /\ [](\A k \in DOMAIN toData(Coll).index :
          /\ sliceIndex => toData(Coll).index[k].lastName = "A"
          /\ sliceFilter => toData(Coll).index[k].firstName = "B")
  /\ [][OneChange({"updated"}) =>
          LET obj == Head(queue).changes[1].obj
              key == getUserKey(obj)
          IN (has(Coll, key) /\ obj \notin Included(MapSet(EmptyIndex, key, obj)))
               => key \notin DOMAIN index']_vars

\* C6: remove(key) of a present key returns true and takes exactly that key
\* out of ids and index, every other key staying in ids in the same relative
\* order and in index, also when another tracked record compares equal to the
\* removed one.
C6_RemovePresent ==
  [][\A key \in Keys :
       (CollectionRemove(key) /\ has(Coll, key) /\ Occurrences(ids, key) = 1) =>
         /\ lastOp'.ret = TRUE
         /\ lastOp'.err = "none"
         /\ index' = MapDelete(index, key)
         /\ ids' = Without(ids, key)]_vars

\* C7: remove(key) of an absent key returns false and changes nothing: ids and
\* index stay, the cached snapshot is not invalidated, and toData() returns
\* the object it returned before the call.
C7_RemoveAbsent ==
  [][\A key \in Keys :
       (CollectionRemove(key) /\ ~has(Coll, key)) =>
         /\ lastOp'.ret = FALSE
         /\ lastOp'.err = "none"
         /\ ids' = ids
         /\ index' = index
         /\ dataCache' = dataCache
         /\ held' = held
         /\ toData(Coll)' = toData(Coll)]_vars

\* C7 case: an absent key was removed from a collection that holds records and
\* whose snapshot the consumer holds.
C7_Witness ==
  /\ lastOp.op = "remove"
  /\ lastOp.ret = FALSE
  /\ lastOp.err = "none"
  /\ ids # <<>>
  /\ dataCache.ref # 0
  /\ held = "cache"

\* C8 as the specification states it: records with distinct keys added one at
\* a time to an empty Collection give the ids and index of one reset with
\* those records.
C8_AddsEqualReset ==
  added.only =>
    LET o == reset(EmptyCollection, added.objects) IN
    toData(Coll).ids = o.ids /\ toData(Coll).index = o.index

\* C8: records with distinct keys added one at a time to an empty Collection
\* give the index of one reset with those records and ids that list the same
\* keys in Comparer order; ids is the sequence reset gives when no two of the
\* records compare equal.
C8_AddsMatchReset ==
  added.only =>
    LET o == reset(EmptyCollection, added.objects)
        data == toData(Coll)
    IN /\ data.index = o.index
       /\ Range(data.ids) = Range(o.ids)
       /\ Len(data.ids) = Len(o.ids)
       /\ Sorted(data.index, data.ids)
       /\ ~Ties(added.objects) => data.ids = o.ids

\* C8 case: three records no two of which compare equal were added to an
\* empty Collection in an order that is not their Comparer order.
C8_Witness ==
  /\ added.only
  /\ lastOp.op = "add"
  /\ Len(added.objects) = 3
  /\ ~Ties(added.objects)
  /\ ids # [i \in 1..Len(added.objects) |-> getUserKey(added.objects[i])]
  /\ ids = reset(EmptyCollection, added.objects).ids

\* C9: add(record) for a tracked key overwrites the index entry and moves the
\* key to where the new record sorts; afterwards the key is once in ids and
\* ids is as long as before.
C9_AddTracked ==
  [][\A obj \in Users :
       (CollectionAdd(obj) /\ has(Coll, getUserKey(obj))) =>
         /\ index' = MapSet(index, getUserKey(obj), obj)
         /\ Occurrences(ids', getUserKey(obj)) = 1
         /\ Len(ids') = Len(ids)
         /\ \A i, j \in 1..Len(ids') :
              (i < j /\ (ids'[i] = getUserKey(obj) \/ ids'[j] = getUserKey(obj))) =>
                /\ ids'[i] \in DOMAIN index'
                /\ ids'[j] \in DOMAIN index'
                /\ compareUsers(index'[ids'[i]], index'[ids'[j]]) <= 0]_vars

\* C10: a batch for the Slice's store whose last change is cleared leaves the
\* Slice with empty ids and empty index, and the subscribers are notified.
C10_Cleared ==
  [][(/\ Deliver
      /\ dbListeners = 1
      /\ Head(queue).storeName = "users"
      /\ Head(queue).changes[Len(Head(queue).changes)].type = "cleared"
      /\ ids # <<>>)
     => (ids' = <<>> /\ index' = EmptyIndex /\ lastOp'.dispatched >= 1)]_vars

\* the Slice's configuration includes the record
IncludedUser(u) ==
  /\ sliceIndex => u.lastName = "A"
  /\ sliceFilter => u.firstName = "B"

\* the last step dispatched a batch of the 'users' store to the listeners
DeliveredUsers ==
  /\ lastOp.op = "changed"
  /\ lastOp.detail # <<>>
  /\ lastOp.detail[1].storeName = "users"

\* C11: a deleted change for the Slice's store removes the key from the Slice
\* (from its index and from its ids) when the key is tracked; when the key is
\* not tracked the collection and the snapshot object stay as they are and no
\* changed notification is dispatched.
C11_Deleted ==
  [][OneChange({"deleted"}) =>
       LET key == Head(queue).changes[1].key IN
       IF key \in DOMAIN index
       THEN key \notin DOMAIN index' /\ key \notin Range(ids')
       ELSE /\ ids' = ids
            /\ index' = index
            /\ dataCache' = dataCache
            /\ held' = held
            /\ lastOp'.dispatched = 0]_vars

\* no change of the batch modifies the collection: every created or updated
\* record is excluded and untracked, every deleted key is untracked
NoneModifies(changes) ==
  \A i \in 1..Len(changes) :
    \/ /\ changes[i].type \in {"created", "updated"}
       /\ ~IncludedUser(changes[i].obj)
       /\ getUserKey(changes[i].obj) \notin DOMAIN index
    \/ /\ changes[i].type = "deleted"
       /\ changes[i].key \notin DOMAIN index

\* C12: the handler run of one batch dispatches at most one changed
\* notification, and none when no change of the batch modifies the collection.
C12_OneNotification ==
  [][(Deliver /\ dbListeners = 1 /\ Head(queue).storeName = "users") =>
       /\ lastOp'.dispatched <= 1
       /\ NoneModifies(Head(queue).changes) =>
            (lastOp'.dispatched = 0 /\ ids' = ids /\ index' = index
             /\ dataCache' = dataCache)]_vars

\* a batch of two changes that both modified the collection (an included
\* record created, then its key deleted) was handled with one notification
C12_Witness ==
  /\ DeliveredUsers
  /\ dbListeners = 1
  /\ Len(lastOp.detail[1].changes) = 2
  /\ lastOp.detail[1].changes[1].type = "created"
  /\ IncludedUser(lastOp.detail[1].changes[1].obj)
  /\ lastOp.detail[1].changes[2].type = "deleted"
  /\ lastOp.err = "none"
  /\ lastOp.dispatched = 1

\* C13: a batch of another store is ignored entirely: the Slice's collection
\* and cached snapshot, the Counter's count and the Entity's snapshot object
\* are unchanged, the Counter starts no recomputation, nothing is thrown and
\* none of the three dispatches a changed notification.
C13_OtherStoreIgnored ==
  [][(Deliver /\ Head(queue).storeName # "users") =>
       /\ ids' = ids /\ index' = index /\ dataCache' = dataCache /\ held' = held
       /\ lastOp'.dispatched = 0 /\ lastOp'.err = "none"
       /\ counter'.count = counter.count
       /\ counter'.updates = counter.updates
       /\ counter'.dispatched = 0
       /\ entity'.snapshot = entity.snapshot
       /\ ~entity'.assigned
       /\ entity'.dispatched = 0 /\ entity'.err = "none"]_vars

\* a batch of another store was dispatched while the Slice, the Counter and
\* the Entity were all listening and all held data
C13_Witness ==
  /\ lastOp.op = "changed"
  /\ lastOp.detail # <<>>
  /\ lastOp.detail[1].storeName = "other"
  /\ dbListeners = 1 /\ counter.listening /\ entity.listening
  /\ ids # <<>>
  /\ counter.count \notin {<<>>, <<0>>}
  /\ entity.snapshot.status = "FOUND"

\* C14: a setup() call while a setup promise exists (no teardown() since the
\* setup that made it) registers no listener, starts no initializer and
\* returns that same promise; so while a setup promise exists exactly one
\* listener of the connector is registered.
C14_SetupIdempotent ==
  [][/\ (Setup /\ setupPromise # "null") =>
          /\ dbListeners' = dbListeners
          /\ deregisterDatabaseListener' = deregisterDatabaseListener
          /\ inits' = inits
          /\ setupPromise' = setupPromise
          /\ lastOp'.ret = FALSE
     /\ setupPromise' # "null" =>
          (dbListeners' = 1 /\ deregisterDatabaseListener' = "registered")]_vars

\* setup() was called again while the first setup was still in flight
C14_Witness ==
  /\ lastOp.op = "setup"
  /\ lastOp.ret = FALSE
  /\ setupPromise = "pending"
  /\ inits.current
  /\ dbListeners = 1

\* C15: teardown() leaves no listener registered and no setup promise; a batch
\* dispatched while the Slice is torn down changes neither its collection nor
\* its snapshot and notifies nobody; the next setup() registers a listener
\* and starts the initializer again, which resets the collection to the
\* store's included records.
C15_Teardown ==
  [][/\ Teardown => (dbListeners' = 0 /\ setupPromise' = "null")
     /\ (Deliver /\ setupPromise = "null") =>
          /\ ids' = ids /\ index' = index /\ dataCache' = dataCache /\ held' = held
          /\ lastOp'.dispatched = 0 /\ lastOp'.err = "none"
     /\ (Setup /\ setupPromise = "null") =>
          /\ dbListeners' = 1
          /\ deregisterDatabaseListener' = "registered"
          /\ setupPromise' = "pending"
          /\ inits'.current
          /\ lastOp'.ret = TRUE
     /\ InitializeCollection(TRUE) =>
          /\ DOMAIN index' = {getUserKey(u) : u \in Included(store)}
          /\ \A k \in DOMAIN index' : index'[k] = store[k]
          /\ Range(ids') = DOMAIN index'
          /\ setupPromise' = "resolved"]_vars

\* after a teardown, the delete of a key the Slice tracks was dispatched and
\* the Slice still tracks it
C15_Witness ==
  /\ DeliveredUsers
  /\ setupPromise = "null"
  /\ deregisterDatabaseListener = "removed"
  /\ lastOp.detail[1].changes[1].type = "deleted"
  /\ lastOp.detail[1].changes[1].key \in DOMAIN index
  /\ lastOp.dispatched = 0

\* the Slice and the Counter have completed setup and neither has a batch,
\* an initializer or a recomputation pending
Quiescent ==
  /\ setupPromise = "resolved"
  /\ counter.setupPromise = "resolved"
  /\ queue = <<>>
  /\ ~inits.current
  /\ ~counter.init
  /\ counter.updates = 0

\* C16: whenever the Slice and the Counter (same index, same filter, same
\* store) have completed setup and nothing is pending, the Counter's count is
\* the length of the Slice snapshot's ids.
C16_CounterMatchesSlice ==
  Quiescent => counter.count = <<Len(toData(Coll).ids)>>

\* C17: when a recomputation resolves with a count that differs from the
\* cached one, the Counter caches it and dispatches one changed notification;
\* when it resolves with the cached count, the count stays and no
\* notification is dispatched.
C17_CountChanged ==
  [][(\E initial \in BOOLEAN : UpdateCountResolved(initial)) =>
       IF <<nextCount(store)>> # counter.count
       THEN /\ counter'.count = <<nextCount(store)>>
            /\ counter'.dispatched = 1
            /\ lastOp'.dispatched = 1
       ELSE /\ counter'.count = counter.count
            /\ counter'.dispatched = 0
            /\ lastOp'.dispatched = 0]_vars

\* a recomputation started by a batch resolved with the count the Counter
\* already had, and nothing was dispatched
C17_Witness ==
  /\ lastOp.op = "updateCount"
  /\ lastOp.dispatched = 0
  /\ counter.count = <<nextCount(store)>>
  /\ counter.setupPromise = "resolved"

\* the change is about the key: a record with that key created or updated, or
\* the key deleted
Matches(change, key) ==
  \/ change.type \in {"created", "updated"} /\ change.obj.id = key
  \/ change.type = "deleted" /\ change.key = key

\* the snapshot a change about the tracked key asks for
Asked(change) ==
  IF change.type = "deleted"
  THEN [status |-> "NOT_FOUND", entity |-> <<>>]
  ELSE [status |-> "FOUND", entity |-> <<change.obj>>]

\* the step delivers a batch of the 'users' store to the Entity's handler
EntityBatch ==
  /\ Deliver
  /\ entity.listening
  /\ Head(queue).storeName = "users"

\* a step keeps the snapshot LOADING until setup, sets it from the store when
\* the key lookup resolves, and afterwards sets it from the last change about
\* the tracked key of each batch (a batch that clears the store after that
\* change is the case of C19)
EntityFollowsStep ==
  /\ entity'.setupPromise = "null" =>
       entity'.snapshot = [status |-> "LOADING", entity |-> <<>>]
  /\ InitializeEntity =>
       entity'.snapshot =
         IF entity.key \in DOMAIN store
         THEN [status |-> "FOUND", entity |-> <<store[entity.key]>>]
         ELSE [status |-> "NOT_FOUND", entity |-> <<>>]
  /\ (EntityBatch /\ entity.setupPromise = "resolved") =>
       (\A i \in 1..Len(Head(queue).changes) :
          (/\ Matches(Head(queue).changes[i], entity.key)
           /\ \A j \in (i + 1)..Len(Head(queue).changes) :
                 /\ Head(queue).changes[j].type # "cleared"
                 /\ ~Matches(Head(queue).changes[j], entity.key))
          => (entity'.snapshot = Asked(Head(queue).changes[i])))

\* C18: the Entity's snapshot is {LOADING, undefined} until its setup; when
\* the key lookup resolves it becomes FOUND with the stored record or NOT_FOUND
\* with entity undefined; afterwards, after each batch holding a change about
\* the tracked key, the snapshot is what the last such change of the batch
\* asks for.
C18_EntityFollows ==
  /\ entity.snapshot = [status |-> "LOADING", entity |-> <<>>]
  /\ [][EntityFollowsStep]_vars

\* C19: a batch of the Entity's store whose last change is cleared leaves the
\* snapshot {NOT_FOUND, undefined} and the subscribers are notified, whatever
\* the tracked key.
C19_EntityCleared ==
  [][(/\ EntityBatch
      /\ Head(queue).changes[Len(Head(queue).changes)].type = "cleared")
     => /\ entity'.snapshot = [status |-> "NOT_FOUND", entity |-> <<>>]
        /\ entity'.dispatched >= 1]_vars

\* C20: a batch of created, updated and deleted changes none of which is about
\* the tracked key leaves the Entity's snapshot the same object (nothing is
\* assigned) and dispatches no changed notification.
C20_OtherKeys ==
  [][(/\ EntityBatch
      /\ \A i \in 1..Len(Head(queue).changes) :
            /\ Head(queue).changes[i].type \in {"created", "updated", "deleted"}
            /\ ~Matches(Head(queue).changes[i], entity.key))
     => /\ entity'.snapshot = entity.snapshot
        /\ ~entity'.assigned
        /\ entity'.dispatched = 0
        /\ entity'.err = "none"]_vars

\* a batch of two changes about another key (a record created, its key
\* deleted) was delivered to an Entity that has found its record
C20_Witness ==
  /\ DeliveredUsers
  /\ entity.listening
  /\ entity.snapshot.status = "FOUND"
  /\ Len(lastOp.detail[1].changes) = 2
  /\ \A i \in 1..2 :
        /\ lastOp.detail[1].changes[i].type \in {"created", "deleted"}
        /\ ~Matches(lastOp.detail[1].changes[i], entity.key)
  /\ ~entity.assigned
  /\ entity.dispatched = 0

\* C21: when the fetch of the initial population rejects, the setup promise
\* the caller awaits rejects, and the Collection is left as it was: ids,
\* index and the cached snapshot are untouched and no changed notification
\* is dispatched.
C21_FetchRejected ==
  [][/\ InitializeRejected(TRUE) => setupPromise' = "rejected"
     /\ (\E current \in BOOLEAN : InitializeRejected(current)) =>
          /\ ids' = ids /\ index' = index /\ dataCache' = dataCache /\ held' = held
          /\ lastOp'.dispatched = 0]_vars

\* the fetch of a second setup rejected while the collection held the records
\* of the first
C21_Witness ==
  /\ lastOp.op = "initializeCollection"
  /\ lastOp.err = "rejected"
  /\ setupPromise = "rejected"
  /\ ids # <<>>
  /\ held = "cache"

\* the change is of none of the kinds the handlers recognize
Unrecognized(change) == change.type \notin {"created", "updated", "deleted"}

RECURSIVE Present(_, _)
Present(obj, steps) ==
  \/ steps = <<>>
  \/ /\ obj.t = "object"
     /\ Head(steps) \in DOMAIN obj.f
     /\ Present(obj.f[Head(steps)], Tail(steps))

\* C23: a created or updated record on which the index path, or an object
\* along it, is missing is handled without an error as a record outside the
\* index: afterwards its key is tracked neither in the index nor in ids, and
\* when it was not tracked the collection and its cached snapshot are
\* untouched.
C23_MissingPath ==
  [][(ChangeInCollectionAt /\ ~Present(args.obj, args.steps)) =>
       /\ lastOp'.err = "none"
       /\ args.obj.f["id"].n \notin DOMAIN index'
       /\ args.obj.f["id"].n \notin Range(ids')
       /\ args.obj.f["id"].n \notin DOMAIN index =>
            (ids' = ids /\ index' = index /\ dataCache' = dataCache
             /\ lastOp'.ret = FALSE)]_vars

\* the changes a transaction recorded for one store, in the order recorded,
\* each without its storeName
ChangesOf(storeName, transactionChanges) ==
  LET OfStore(tc) == tc.storeName = storeName
      own == SelectSeq(transactionChanges, OfStore)
  IN [i \in 1..Len(own) |-> [f \in DOMAIN own[i] \ {"storeName"} |-> own[i][f]]]

C26_Subscribed ==
  [][/\ \A id \in 1..Len(eventTarget.called) :
          eventTarget'.called[id] =
            eventTarget.called[id]
            + (IF id \in eventTarget.unsubscribed THEN 0 ELSE lastOp'.dispatched)
     /\ \A id \in 1..Len(eventTarget'.called) :
          id > Len(eventTarget.called) => eventTarget'.called[id] = 0]_vars

\* the second subscribe call's callback ran for an event dispatched after the
\* first call's unregister function was called
C26_Witness ==
  /\ Len(eventTarget.called) = 2
  /\ eventTarget.unsubscribed = {1}
  /\ eventTarget.called[1] = 1
  /\ eventTarget.called[2] = 2
  /\ lastOp.op = "changed"
  /\ lastOp.dispatched = 1

\* the positions of items whose element compares equal to the item searched
EqualAt(idx, items, item) ==
  {i \in 1..Len(items) : compareUsers(idx[item], idx[items[i]]) = 0}

\* C27: on a sorted sequence findIndex returns an index whose element compares
\* equal to the target when there is such an element, and returns undefined,
\* without throwing, when there is none.
C27_FindIndex ==
  (lastOp.op = "findIndex" /\ Sorted(args.idx, args.items)) =>
    /\ lastOp.err = "none"
    /\ IF EqualAt(args.idx, args.items, args.item) = {}
       THEN ~lastOp.detail[1].found
       ELSE /\ lastOp.detail[1].found
            /\ lastOp.detail[1].val + 1 \in EqualAt(args.idx, args.items, args.item)

\* C28: on a sequence sorted by the comparer getInsertIndex returns an index i
\* in 0..length with every element before i less than or equal to the
\* candidate and every element from i on greater than or equal to it: 0 for
\* the empty sequence, 0 for a candidate that sorts before all elements,
\* length for one that sorts after all.
C28_InsertIndex ==
  (lastOp.op = "getInsertIndex" /\ Sorted(args.idx, args.items)) =>
    /\ lastOp.err = "none"
    /\ lastOp.detail[1].val \in 0..Len(args.items)
    /\ \A j \in 1..Len(args.items) :
         IF j <= lastOp.detail[1].val
         THEN compareUsers(args.idx[args.items[j]], args.idx[args.item]) <= 0
         ELSE compareUsers(args.idx[args.items[j]], args.idx[args.item]) >= 0
    /\ (\A j \in 1..Len(args.items) :
          compareUsers(args.idx[args.item], args.idx[args.items[j]]) < 0)
       => lastOp.detail[1].val = 0
    /\ (\A j \in 1..Len(args.items) :
          compareUsers(args.idx[args.item], args.idx[args.items[j]]) > 0)
       => lastOp.detail[1].val = Len(args.items)

\* the candidate goes between two elements of a sorted sequence of three
C28_Witness ==
  /\ lastOp.op = "getInsertIndex"
  /\ Sorted(args.idx, args.items)
  /\ Len(args.items) = 3
  /\ args.item \notin Range(args.items)
  /\ lastOp.detail[1].val = 2
  /\ compareUsers(args.idx[args.items[2]], args.idx[args.item]) < 0
  /\ compareUsers(args.idx[args.item], args.idx[args.items[3]]) < 0

\* C29: both searches end after at most length + 1 passes of their loop,
\* whatever the order of the sequence, by returning or by raising their
\* internal error; on a sorted sequence getInsertIndex returns for every
\* candidate and findIndex returns for every target the sequence holds.
C29_Terminates ==
  lastOp.op \in {"findIndex", "getInsertIndex"} =>
    /\ lastOp.detail[1].iterations <= Len(args.items) + 1
    /\ lastOp.err \in {"none", "Unable to find item", "Unable to find insert index"}
    /\ (Sorted(args.idx, args.items) /\ lastOp.op = "getInsertIndex") => lastOp.err = "none"
    /\ (Sorted(args.idx, args.items) /\ lastOp.op = "findIndex"
          /\ args.item \in Range(args.items)) => lastOp.err = "none"

\* findIndex gave up on a sequence of three after four passes
C29_Witness ==
  /\ lastOp.op = "findIndex"
  /\ Len(args.items) = 3
  /\ lastOp.err = "Unable to find item"
  /\ lastOp.detail[1].iterations = 4

\* C30: when the fetch of an initializer resolves after teardown() and no
\* setup() has followed the teardown, its effect is discarded: the collection
\* and its cached snapshot stay as they are and no changed event is
\* dispatched.
C30_StaleDiscarded ==
  [][(InitializeCollection(FALSE) /\ setupPromise = "null") =>
       /\ ids' = ids
       /\ index' = index
       /\ dataCache' = dataCache
       /\ held' = held
       /\ lastOp'.dispatched = 0]_vars

\* the collection holds exactly the store's records that the Slice includes
FollowsStore ==
  /\ index = [k \in {getUserKey(u) : u \in Included(store)} |-> store[k]]
  /\ Range(ids) = DOMAIN index
  /\ Len(ids) = Cardinality(DOMAIN index)

\* C31: after setup(), teardown(), setup() with the first population still
\* pending, once both populations have resolved and no batch is waiting the
\* collection holds what the second population and the batches since give,
\* the store's included records, in whichever order the two resolved.
C31_StalePopulation ==
  (/\ inits.raced
   /\ setupPromise = "resolved"
   /\ ~inits.current
   /\ inits.stale = 0
   /\ queue = <<>>) => FollowsStore

\* the step delivers to the Slice a batch of two changes of these types, in
\* this order, on one key
TwoChanges(first, second) ==
  /\ Deliver
  /\ dbListeners = 1
  /\ Head(queue).storeName = "users"
  /\ Len(Head(queue).changes) = 2
  /\ Head(queue).changes[1].type = first
  /\ Head(queue).changes[2].type = second

\* C32: the changes of a batch are applied in their order, each of them: after
\* [created r, deleted key(r)] the key is in neither ids nor index, and after
\* [deleted key(r), created r] with r included the key is in ids and the index
\* holds r for it.
C32_BatchOrder ==
  [][/\ TwoChanges("created", "deleted") =>
          /\ Head(queue).changes[2].key \notin DOMAIN index'
          /\ Head(queue).changes[2].key \notin Range(ids')
     /\ (TwoChanges("deleted", "created") /\ IncludedUser(Head(queue).changes[2].obj)) =>
          /\ Head(queue).changes[1].key \in Range(ids')
          /\ Head(queue).changes[1].key \in DOMAIN index'
          /\ index'[Head(queue).changes[1].key] = Head(queue).changes[2].obj]_vars

\* the Entity's snapshot is the store's record of its key
EntityReflectsStore ==
  entity.snapshot = IF entity.key \in DOMAIN store
                    THEN Found(store[entity.key]) ELSE NotFound_

C35_ModifiedNotified ==
  [][(/\ Deliver
      /\ dbListeners = 1
      /\ Head(queue).storeName = "users"
      /\ (ids' # ids \/ index' # index)) => lastOp'.dispatched > 0]_vars

\* C36: across any sequence of setup() and teardown() calls, at most one
\* listener of the connector is registered with the database, and none is
\* registered from a teardown() until the next setup().
C36_OneListener ==
  /\ dbListeners <= 1
  /\ setupPromise = "null" => dbListeners = 0

\* a setup after a teardown has registered the connector's listener again,
\* while the initializer of the setup torn down is still pending
C36_Witness ==
  /\ lastOp.op = "setup"
  /\ lastOp.ret
  /\ inits.stale > 0
  /\ dbListeners = 1

\* C37: a rejected setup is kept until teardown(): while setupPromise is the
\* rejected one, every call but teardown() leaves it so and leaves the one
\* listener registered; a further setup() starts no initializer and registers
\* nothing; and a batch is still processed (the created change of an included
\* record the Slice does not track adds the record and notifies).
C37_RejectedKept ==
  [][setupPromise = "rejected" =>
       /\ dbListeners = 1
       /\ lastOp'.op # "teardown" =>
            /\ setupPromise' = "rejected"
            /\ dbListeners' = 1
            /\ deregisterDatabaseListener' = "registered"
       /\ Setup =>
            /\ lastOp'.ret = FALSE
            /\ inits' = inits
       /\ (/\ OneChange({"created"})
           /\ IncludedUser(Head(queue).changes[1].obj)
           /\ getUserKey(Head(queue).changes[1].obj) \notin DOMAIN index) =>
            /\ getUserKey(Head(queue).changes[1].obj) \in Range(ids')
            /\ index'[getUserKey(Head(queue).changes[1].obj)] = Head(queue).changes[1].obj
            /\ lastOp'.dispatched = 1]_vars

\* after the initializer rejected, and with no teardown since, the listener
\* has added a created record and notified
C37_Witness ==
  /\ setupPromise = "rejected"
  /\ lastOp.op = "changed"
  /\ lastOp.dispatched = 1
  /\ dbListeners = 1
  /\ ids # <<>>

C39_NeverLoadingAgain ==
  [][entity.snapshot.status # "LOADING" => entity'.snapshot.status # "LOADING"]_vars

\* the Entity was set up again after a teardown and, its lookup still
\* pending, shows the record it found before
C39_Witness ==
  /\ entity.snapshot.status = "FOUND"
  /\ entity.setupPromise = "pending"
  /\ entity.init
  /\ lastOp.op = "Entity.setup"
  /\ lastOp.ret

====
